---- MODULE Spec2Model ----
(***************************************************************************)
(* Session manager of the coffee-pos frontend.                             *)
(*                                                                         *)
(* The repository holds several variants of the authentication service.    *)
(* Each variant is a specification of its own over the same variables:     *)
(*   Spec        services/auth.service.ts, createAuthService with          *)
(*               isRefreshing / failedQueue (lines 150-298 and 327-473)    *)
(*   SpecV1      services/auth.service.ts lines 10-124 on top of           *)
(*               createBaseService (services/base/base.service.ts 17-76)   *)
(*   SpecLegacy  the object-literal authService with setupInterceptors and *)
(*               setupExpirationTimer (unnamed/part_014)                   *)
(*   SpecLogout  the queued variant with logout() called from the button  *)
(*   SpecExpiry  tokenService.isTokenExpiringSoon (unnamed/part_016)       *)
(*   SpecCart    hooks/useCart.ts: cart handlers, effects and reloads      *)
(*   SpecTotals  hooks/useCart.ts: getCartTotals                           *)
(* JavaScript runs handlers to their next network await without            *)
(* interleaving, so one action is one handler run between two awaits.      *)
(***************************************************************************)
EXTENDS Integers, Sequences, FiniteSets, TLC

\* ---- bounds -------------------------------------------------------------
NReq == 3                      \* requests issued during one page lifetime
Req == 1..NReq
NLiveReq == 2                  \* requests issued in the runs checked for liveness
LiveReq == 1..NLiveReq

\* ---- values -------------------------------------------------------------
NoToken == 0                   \* tokenService.getToken() === null
BadToken == -1                 \* a token string jwtDecode cannot decode
Kinds == {"api", "login"}
PcValues == {"idle", "sent", "queued", "refreshing", "loggingOut", "ok", "failed"}
ErrValues == {"none", "http401", "http500", "refreshError", "tokenFormat"}

VARIABLES
  pc,              \* per request: where its promise chain is suspended
  kind,            \* per request: "api" or "login" (login carries skipRefreshToken)
  retry,           \* per request: originalRequest._retry
  auth,            \* per request: token in originalRequest.headers.Authorization
  err,             \* per request: the error its caller received
  replayed,        \* per request: axiosInstance(originalRequest) was called again
  token,           \* tokenService: localStorage TOKEN_KEY
  user,            \* tokenService: localStorage USER_KEY (decoded identity)
  pathname,        \* window.location.pathname
  redirects,       \* number of assignments window.location.href = '/login'
  clears,          \* number of tokenService.clearToken() calls
  isRefreshing,    \* createAuthService closure flag
  failedQueue,     \* createAuthService closure queue (requests whose promise waits)
  minted,          \* number of tokens the server has issued
  refreshInFlight, \* owners of refresh calls GET api/users/refresh not yet settled
  refLog,          \* history: one record per refreshToken() call of the interceptor
  joined,          \* history: per request, refresh calls it started or was queued behind
  now,             \* legacy: Math.floor(Date.now() / 1000) at the last timer tick
  exp,             \* legacy: decoded.exp of the identity in localStorage 'user'
  timerOn,         \* legacy: window._tokenCheckInterval is installed
  tickRefresh,     \* legacy: refresh calls started by the timer, not yet settled
  logoutsPending,  \* legacy: logout() runs awaiting their DELETE
  ulStarted,       \* logout(): runs started from the logout button
  ulPending,       \* logout(): runs of the button awaiting their DELETE
  ulVias,          \* history: how the DELETE of the ended runs went
  ulRejected,      \* history: some run of logout() rejected its promise
  clock,           \* Date.now() in units of 500 ms
  tokenExp,        \* the exp claim (seconds) of the stored token
  soon,            \* what isTokenExpiringSoon() returned at this instant
  products,        \* useCart: the products argument (the catalog)
  cart,            \* useCart: the cart state
  stored,          \* localStorage slot 'shopping_cart'
  effectsPending,  \* useCart: a render is committed, its effects not yet run
  totals,          \* what getCartTotals returned for the cart on screen
  stock,           \* transactions page: stock of each product of the catalog
  serviceCharge,   \* transactions page: the service charge state (percent)
  isOrderConfirmed,\* transactions page: the confirmation dialog is open
  ordersInFlight,  \* transactions page: createMutation.mutateAsync calls pending
  payload,         \* transactions page: the last transactionPayload built
  httpCall,        \* createHttpClient: the last call of request() and its outcome
  httpPrev,        \* createHttpClient: the call before it
  timedOut,        \* LoginForm: submits whose timeout promise has rejected
  formClock        \* LoginForm: per submit, time since onSubmit began

authVars == <<pc, kind, retry, auth, err, replayed, token, user, pathname,
              redirects, clears, isRefreshing, failedQueue, minted,
              refreshInFlight, refLog, joined>>

queueVars == <<isRefreshing, failedQueue, refLog, joined>>

legacyVars == <<now, exp, timerOn, tickRefresh, logoutsPending>>

logoutVars == <<ulStarted, ulPending, ulVias, ulRejected>>

expiryVars == <<clock, tokenExp, soon>>

cartVars == <<products, cart, stored, effectsPending, totals>>

pageVars == <<stock, serviceCharge, isOrderConfirmed, ordersInFlight, payload>>

httpVars == <<httpCall, httpPrev>>

formVars == <<timedOut, formClock>>

restVars == <<pageVars, httpVars, formVars>>

vars == <<authVars, legacyVars, logoutVars, expiryVars, cartVars, restVars>>

\* What the actions of each variant leave alone.
outsideQueued == <<legacyVars, logoutVars, expiryVars, cartVars, restVars>>
outsideV1 == <<queueVars, legacyVars, logoutVars, expiryVars, cartVars, restVars>>
outsideLegacy == <<queueVars, logoutVars, expiryVars, cartVars, restVars>>

\* Parts of the page a run does not exercise stay as they are at page load.
NoRecord == <<>>               \* localStorage.getItem(...) === null
Unset == <<>>                  \* no call has returned at this instant

LogoutIdle ==
  /\ ulStarted = 0 /\ ulPending = 0 /\ ulVias = {} /\ ulRejected = FALSE

ExpiryIdle ==
  /\ clock = 0 /\ tokenExp = 0 /\ soon = Unset

CartIdle ==
  /\ products = <<>> /\ cart = <<>> /\ stored = NoRecord
  /\ effectsPending = FALSE /\ totals = Unset

PageIdle ==
  /\ stock = <<>> /\ serviceCharge = 0 /\ isOrderConfirmed = FALSE
  /\ ordersInFlight = 0 /\ payload = Unset

HttpIdle ==
  /\ httpCall = Unset /\ httpPrev = Unset

FormIdle ==
  /\ timedOut = {}
  /\ formClock = [r \in Req |-> 0]

RestIdle == PageIdle /\ HttpIdle /\ FormIdle

NoRequests ==
  /\ pc = [r \in Req |-> "idle"]
  /\ kind = [r \in Req |-> "api"]
  /\ retry = [r \in Req |-> FALSE]
  /\ auth = [r \in Req |-> NoToken]
  /\ err = [r \in Req |-> "none"]
  /\ replayed = [r \in Req |-> FALSE]
  /\ redirects = 0
  /\ clears = 0
  /\ isRefreshing = FALSE
  /\ failedQueue = <<>>
  /\ refreshInFlight = {}
  /\ refLog = <<>>
  /\ joined = [r \in Req |-> {}]

LegacyOff ==
  /\ now = 0 /\ exp = 0 /\ timerOn = FALSE /\ tickRefresh = 0 /\ logoutsPending = 0

\* ---- tokenService (unnamed/part_016 lines 135-192) ----------------------
\* setToken stores the raw token first, then the decoded identity; decoding
\* an undecodable token throws after the token has been stored.
Decodable(t) == t > 0

setTokenThrows(t) == ~Decodable(t)

\* Fault: the refreshed token is returned but never stored.
setToken_NoStore(t) ==
  /\ token' = token
  /\ user' = user

setToken(t) ==
  /\ token' = t
  /\ user' = IF Decodable(t) THEN t ELSE user

clearToken ==
  /\ token' = NoToken
  /\ user' = NoToken
  /\ clears' = clears + 1

\* Fault: logout clears the token but never navigates.
RedirectToLogin_Never ==
  redirects' = redirects

\* if (window.location.pathname !== '/login') window.location.href = '/login'
RedirectToLogin ==
  redirects' = IF pathname # "/login" THEN redirects + 1 ELSE redirects

\* ---- services/auth.service.ts, createAuthService (lines 150-298) --------

\* config.skipRefreshToken: set by login (line 235), refreshToken (line 254)
\* and logout (line 278); resource requests do not carry it.
skipRefreshToken(k) == k \in {"login", "refresh", "logout"}

\* config.url?.includes('refresh')
urlIncludesRefresh(k) == k = "refresh"

\* Fault: the isRefreshing test of line 191 is missing.
OnRejected_NoFlag(status, k, _retry, refreshing) ==
  IF skipRefreshToken(k) \/ urlIncludesRefresh(k) THEN "reject"
  ELSE IF status = 401 /\ ~_retry THEN "refresh" ELSE "reject"

\* The rejected-response handler of the interceptor (lines 180-222): what it
\* does with an error of the given status for a request of kind k.
OnRejected(status, k, _retry, refreshing) ==
  IF skipRefreshToken(k) \/ urlIncludesRefresh(k) THEN "reject"
  ELSE IF status = 401 /\ ~_retry
       THEN (IF refreshing THEN "enqueue" ELSE "refresh")
       ELSE "reject"

\* Fault: processQueue settles the head of the queue only.
QueueEntries_FirstOnly(q) == IF Len(q) = 0 THEN {} ELSE {q[1]}

\* The entries failedQueue.forEach visits in processQueue (lines 163-172).
QueueEntries(q) == {q[i] : i \in 1..Len(q)}

StatusErr(status) == IF status = 401 THEN "http401" ELSE "http500"

CurRef == Len(refLog)

\* The requests whose interceptor run is suspended on a failedQueue promise.
Waiting == {q \in Req : pc[q] = "queued"}

\* A request is issued through the exported axiosInstance / request.  The
\* login form lives on /login, resource requests on the protected pages.
\* createHttpClient installs no request interceptor: no Authorization header.
Send(r, k) ==
  /\ pc[r] = "idle"
  /\ IF k = "login" THEN pathname = "/login" ELSE pathname # "/login"
  /\ pc' = [pc EXCEPT ![r] = "sent"]
  /\ kind' = [kind EXCEPT ![r] = k]
  /\ UNCHANGED <<retry, auth, err, replayed, token, user, pathname, redirects,
                 clears, isRefreshing, failedQueue, minted, refreshInFlight,
                 refLog, joined>>
  /\ UNCHANGED outsideQueued

\* 2xx answer to a resource request: response => response.
RespondOk(r) ==
  /\ pc[r] = "sent"
  /\ kind[r] = "api"
  /\ pc' = [pc EXCEPT ![r] = "ok"]
  /\ UNCHANGED <<kind, retry, auth, err, replayed, token, user, pathname,
                 redirects, clears, isRefreshing, failedQueue, minted,
                 refreshInFlight, refLog, joined>>
  /\ UNCHANGED outsideQueued

\* login (lines 230-243): 2xx answer with a token in response.data; then
\* useAuth.login decodes the token and routes to the role's page.
LoginOk(r, good) ==
  /\ pc[r] = "sent"
  /\ kind[r] = "login"
  /\ minted' = IF good THEN minted + 1 ELSE minted
  /\ LET t == IF good THEN minted + 1 ELSE BadToken IN
       /\ setToken(t)
       /\ pc' = [pc EXCEPT ![r] = IF setTokenThrows(t) THEN "failed" ELSE "ok"]
       /\ err' = [err EXCEPT ![r] = IF setTokenThrows(t) THEN "tokenFormat" ELSE "none"]
       /\ pathname' = IF setTokenThrows(t) THEN pathname ELSE "/admin"
  /\ UNCHANGED <<kind, retry, auth, replayed, redirects, clears, isRefreshing,
                 failedQueue, refreshInFlight, refLog, joined>>
  /\ UNCHANGED outsideQueued

\* Error answer (401, or any other failure) to a request: the rejected handler
\* of the interceptor runs up to its first await.
RespondErr(r, status) ==
  /\ pc[r] = "sent"
  /\ LET d == OnRejected(status, kind[r], retry[r], isRefreshing) IN
       \/ /\ d = "reject"                       \* lines 185 and 221
          /\ pc' = [pc EXCEPT ![r] = "failed"]
          /\ err' = [err EXCEPT ![r] = StatusErr(status)]
          /\ UNCHANGED <<retry, isRefreshing, failedQueue, refreshInFlight,
                         refLog, joined>>
       \/ /\ d = "enqueue"                      \* lines 191-195
          /\ failedQueue' = Append(failedQueue, r)
          /\ pc' = [pc EXCEPT ![r] = "queued"]
          /\ joined' = [joined EXCEPT ![r] = @ \cup {CurRef}]
          /\ UNCHANGED <<retry, err, isRefreshing, refreshInFlight, refLog>>
       \/ /\ d = "refresh"                      \* lines 203-207
          /\ retry' = [retry EXCEPT ![r] = TRUE]
          /\ isRefreshing' = TRUE
          /\ refreshInFlight' = refreshInFlight \cup {r}
          /\ refLog' = Append(refLog, [owner |-> r, outcome |-> "inflight",
                                       waiters |-> {}, tok |-> NoToken,
                                       clears |-> 0, redirects |-> 0])
          /\ joined' = [joined EXCEPT ![r] = @ \cup {CurRef + 1}]
          /\ pc' = [pc EXCEPT ![r] = "refreshing"]
          /\ UNCHANGED <<err, failedQueue>>
  /\ UNCHANGED <<kind, auth, replayed, token, user, pathname, redirects, clears,
                 minted>>
  /\ UNCHANGED outsideQueued

\* refreshToken (lines 249-266) resolves with a decodable token: lines 207-211
\* and the finally of line 218.  The continuations of the queued promises run
\* as microtasks of the same task (lines 196-197).
RefreshOk(r) ==
  /\ pc[r] = "refreshing"
  /\ r \in refreshInFlight
  /\ LET t == minted + 1
         woken == QueueEntries(failedQueue) IN
       /\ minted' = t
       /\ setToken(t)
       /\ auth' = [q \in Req |-> IF q = r \/ q \in woken THEN t ELSE auth[q]]
       /\ pc' = [q \in Req |-> IF q = r \/ q \in woken THEN "sent" ELSE pc[q]]
       /\ replayed' = [q \in Req |-> IF q = r \/ q \in woken THEN TRUE ELSE replayed[q]]
       /\ refLog' = [refLog EXCEPT ![CurRef] =
                       [@ EXCEPT !.outcome = "ok", !.waiters = Waiting, !.tok = t]]
  /\ failedQueue' = <<>>
  /\ isRefreshing' = FALSE
  /\ refreshInFlight' = refreshInFlight \ {r}
  /\ UNCHANGED <<kind, retry, err, pathname, redirects, clears, joined>>
  /\ UNCHANGED outsideQueued

\* Fault: isRefreshing is reset on the success path only (no finally).
FinishFailedRefresh_NoFinally(r, log) ==
  /\ clearToken
  /\ RedirectToLogin
  /\ refLog' = [log EXCEPT ![CurRef] =
                  [@ EXCEPT !.outcome = "failed", !.clears = @ + 1,
                            !.redirects = @ + (redirects' - redirects)]]
  /\ isRefreshing' = isRefreshing

\* The tail of logout (lines 284-288), the throw of line 216 and the finally.
FinishFailedRefresh(r, log) ==
  /\ clearToken
  /\ RedirectToLogin
  /\ refLog' = [log EXCEPT ![CurRef] =
                  [@ EXCEPT !.outcome = "failed", !.clears = @ + 1,
                            !.redirects = @ + (redirects' - redirects)]]
  /\ isRefreshing' = FALSE

\* refreshToken rejects: the refresh request failed (its own error passes the
\* interceptor at line 184-185), the body carried no token (line 262), or
\* setToken threw on an undecodable token after storing it.  Lines 212-215.
RefreshFail(r, status, mode) ==
  /\ pc[r] = "refreshing"
  /\ r \in refreshInFlight
  /\ mode = "http" => OnRejected(status, "refresh", FALSE, isRefreshing) = "reject"
  /\ LET held == IF mode = "undecodable" THEN BadToken ELSE token
         dropped == QueueEntries(failedQueue)
         log == [refLog EXCEPT ![CurRef] =
                   [@ EXCEPT !.outcome = "failing", !.waiters = Waiting]] IN
       /\ refreshInFlight' = refreshInFlight \ {r}
       /\ failedQueue' = <<>>                   \* processQueue(refreshError, null)
       /\ minted' = minted
       /\ IF held # NoToken
          THEN \* logout awaits DELETE api/users/logout (lines 274-282)
               /\ pc' = [q \in Req |-> IF q = r THEN "loggingOut"
                                       ELSE IF q \in dropped THEN "failed" ELSE pc[q]]
               /\ err' = [q \in Req |-> IF q \in dropped THEN "refreshError" ELSE err[q]]
               /\ token' = held
               /\ refLog' = log
               /\ UNCHANGED <<user, redirects, clears, isRefreshing>>
          ELSE /\ pc' = [q \in Req |-> IF q = r \/ q \in dropped THEN "failed" ELSE pc[q]]
               /\ err' = [q \in Req |-> IF q = r \/ q \in dropped THEN "refreshError"
                                        ELSE err[q]]
               /\ FinishFailedRefresh(r, log)
  /\ UNCHANGED <<kind, retry, auth, replayed, pathname, joined>>
  /\ UNCHANGED outsideQueued

\* The DELETE of logout settles; whatever the answer (its error passes the
\* interceptor at line 184-185 and is swallowed by the catch of line 279).
LogoutSettle(r, status) ==
  /\ pc[r] = "loggingOut"
  /\ status # 200 => OnRejected(status, "logout", FALSE, isRefreshing) = "reject"
  /\ pc' = [pc EXCEPT ![r] = "failed"]
  /\ err' = [err EXCEPT ![r] = "refreshError"]
  /\ FinishFailedRefresh(r, refLog)
  /\ UNCHANGED <<kind, retry, auth, replayed, pathname, failedQueue, minted,
                 refreshInFlight, joined>>
  /\ UNCHANGED outsideQueued

\* A page load: either the login page without a session, or a protected page
\* with the token of an earlier login still in localStorage.
Init ==
  /\ pc = [r \in Req |-> "idle"]
  /\ kind = [r \in Req |-> "api"]
  /\ retry = [r \in Req |-> FALSE]
  /\ auth = [r \in Req |-> NoToken]
  /\ err = [r \in Req |-> "none"]
  /\ replayed = [r \in Req |-> FALSE]
  /\ \/ token = NoToken /\ user = NoToken /\ minted = 0 /\ pathname = "/login"
     \/ token = 1 /\ user = 1 /\ minted = 1 /\ pathname = "/admin"
  /\ redirects = 0
  /\ clears = 0
  /\ isRefreshing = FALSE
  /\ failedQueue = <<>>
  /\ refreshInFlight = {}
  /\ refLog = <<>>
  /\ joined = [r \in Req |-> {}]
  /\ now = 0 /\ exp = 0 /\ timerOn = FALSE /\ tickRefresh = 0 /\ logoutsPending = 0
  /\ LogoutIdle /\ ExpiryIdle /\ CartIdle /\ RestIdle

Statuses == {200, 401, 500}

Next ==
  \/ \E r \in Req, k \in Kinds : Send(r, k)
  \/ \E r \in Req : RespondOk(r)
  \/ \E r \in Req, good \in BOOLEAN : LoginOk(r, good)
  \/ \E r \in Req, status \in Statuses \ {200} : RespondErr(r, status)
  \/ \E r \in Req : RefreshOk(r)
  \/ \E r \in Req, status \in Statuses \ {200},
        mode \in {"http", "noData", "undecodable"} : RefreshFail(r, status, mode)
  \/ \E r \in Req, status \in Statuses : LogoutSettle(r, status)

Spec == Init /\ [][Next]_vars

TypeOK ==
  /\ pc \in [Req -> PcValues]
  /\ kind \in [Req -> Kinds]
  /\ retry \in [Req -> BOOLEAN]
  /\ err \in [Req -> ErrValues]
  /\ replayed \in [Req -> BOOLEAN]
  /\ token \in Int /\ user \in Nat
  /\ pathname \in {"/login", "/admin"}
  /\ isRefreshing \in BOOLEAN
  /\ refreshInFlight \subseteq Req

\* The liveness claims are checked over the requests of LiveReq.
NextLive ==
  \/ \E r \in LiveReq, k \in Kinds : Send(r, k)
  \/ \E r \in LiveReq : RespondOk(r)
  \/ \E r \in LiveReq, good \in BOOLEAN : LoginOk(r, good)
  \/ \E r \in LiveReq, status \in Statuses \ {200} : RespondErr(r, status)
  \/ \E r \in LiveReq : RefreshOk(r)
  \/ \E r \in LiveReq, status \in Statuses \ {200},
        mode \in {"http", "noData", "undecodable"} : RefreshFail(r, status, mode)
  \/ \E r \in LiveReq, status \in Statuses : LogoutSettle(r, status)

\* The refresh and logout network calls settle (axios timeout of 10 s,
\* createHttpClient); nothing else is assumed of the scheduling.
FairSpec ==
  /\ Init
  /\ [][NextLive]_vars
  /\ \A r \in LiveReq :
       /\ WF_vars(RefreshOk(r) \/ \E st \in Statuses \ {200},
                     mode \in {"http", "noData", "undecodable"} : RefreshFail(r, st, mode))
       /\ WF_vars(\E st \in Statuses : LogoutSettle(r, st))

\* The history variables describe the refresh the closure state is about.
LogConsistent ==
  /\ \A r \in Req : pc[r] \in {"refreshing", "loggingOut"} =>
        /\ CurRef >= 1
        /\ refLog[CurRef].owner = r
        /\ isRefreshing
  /\ \A r \in Req : r \in refreshInFlight <=> pc[r] = "refreshing"
  /\ \A r \in Req : pc[r] = "queued" <=> r \in QueueEntries(failedQueue)

\* ---- services/auth.service.ts lines 10-124 over createBaseService --------
\* createAuthService takes its axios instance from createBaseService
\* (services/base/base.service.ts lines 17-76), which has already installed a
\* request interceptor and a response interceptor; setupRefreshInterceptor
\* adds a second response interceptor, run after the first.

\* Response interceptor of createBaseService (base.service.ts lines 41-52).
BaseOnRejected(status) ==
  IF status = 401
  THEN clearToken /\ RedirectToLogin
  ELSE UNCHANGED <<token, user, clears, redirects>>

\* Rejected handler of setupRefreshInterceptor (auth.service.ts lines 20-35).
V1OnRejected(status, k, _retry) ==
  IF status = 401 /\ ~_retry /\ ~urlIncludesRefresh(k) THEN "refresh" ELSE "reject"

\* Request interceptor of createBaseService (base.service.ts lines 29-38).
V1Send(r, k) ==
  /\ pc[r] = "idle"
  /\ IF k = "login" THEN pathname = "/login" ELSE pathname # "/login"
  /\ pc' = [pc EXCEPT ![r] = "sent"]
  /\ kind' = [kind EXCEPT ![r] = k]
  /\ auth' = [auth EXCEPT ![r] = token]
  /\ UNCHANGED <<retry, err, replayed, token, user, pathname, redirects, clears,
                 minted, refreshInFlight>>
  /\ UNCHANGED outsideV1

V1RespondOk(r) ==
  /\ pc[r] = "sent"
  /\ kind[r] = "api"
  /\ pc' = [pc EXCEPT ![r] = "ok"]
  /\ UNCHANGED <<kind, retry, auth, err, replayed, token, user, pathname,
                 redirects, clears, minted, refreshInFlight>>
  /\ UNCHANGED outsideV1

\* login (lines 44-57), then useAuth.login.
V1LoginOk(r, good) ==
  /\ pc[r] = "sent"
  /\ kind[r] = "login"
  /\ minted' = IF good THEN minted + 1 ELSE minted
  /\ LET t == IF good THEN minted + 1 ELSE BadToken IN
       /\ setToken(t)
       /\ pc' = [pc EXCEPT ![r] = IF setTokenThrows(t) THEN "failed" ELSE "ok"]
       /\ err' = [err EXCEPT ![r] = IF setTokenThrows(t) THEN "tokenFormat" ELSE "none"]
       /\ pathname' = IF setTokenThrows(t) THEN pathname ELSE "/admin"
  /\ UNCHANGED <<kind, retry, auth, replayed, redirects, clears, refreshInFlight>>
  /\ UNCHANGED outsideV1

\* An error answer passes the base interceptor, then the refresh interceptor.
V1RespondErr(r, status) ==
  /\ pc[r] = "sent"
  /\ BaseOnRejected(status)
  /\ IF V1OnRejected(status, kind[r], retry[r]) = "refresh"
     THEN /\ retry' = [retry EXCEPT ![r] = TRUE]         \* line 24
          /\ refreshInFlight' = refreshInFlight \cup {r} \* line 26
          /\ pc' = [pc EXCEPT ![r] = "refreshing"]
          /\ UNCHANGED err
     ELSE /\ pc' = [pc EXCEPT ![r] = "failed"]           \* line 34
          /\ err' = [err EXCEPT ![r] = StatusErr(status)]
          /\ UNCHANGED <<retry, refreshInFlight>>
  /\ UNCHANGED <<kind, auth, replayed, pathname, minted>>
  /\ UNCHANGED outsideV1

\* refreshToken (lines 64-77) resolves; lines 27-28 replay the request, whose
\* header the request interceptor sets from the stored token.
V1RefreshOk(r) ==
  /\ pc[r] = "refreshing"
  /\ r \in refreshInFlight
  /\ minted' = minted + 1
  /\ setToken(minted + 1)
  /\ auth' = [auth EXCEPT ![r] = minted + 1]
  /\ pc' = [pc EXCEPT ![r] = "sent"]
  /\ replayed' = [replayed EXCEPT ![r] = TRUE]
  /\ refreshInFlight' = refreshInFlight \ {r}
  /\ UNCHANGED <<kind, retry, err, pathname, redirects, clears>>
  /\ UNCHANGED outsideV1

\* refreshToken rejects: lines 29-31 await logout (lines 82-99).  A 401 answer
\* to the refresh request itself passes the base interceptor first.
V1RefreshFail(r, status, mode) ==
  /\ pc[r] = "refreshing"
  /\ r \in refreshInFlight
  /\ mode = "http" => V1OnRejected(status, "refresh", FALSE) = "reject"
  /\ refreshInFlight' = refreshInFlight \ {r}
  /\ LET baseHit == mode = "http" /\ status = 401
         nav == IF pathname # "/login" THEN 1 ELSE 0
         held == IF mode = "undecodable" THEN BadToken
                 ELSE IF baseHit THEN NoToken ELSE token IN
       IF held # NoToken
       THEN /\ pc' = [pc EXCEPT ![r] = "loggingOut"]
            /\ token' = held
            /\ UNCHANGED <<err, user, clears, redirects>>
       ELSE /\ pc' = [pc EXCEPT ![r] = "failed"]
            /\ err' = [err EXCEPT ![r] = "refreshError"]
            /\ token' = NoToken
            /\ user' = NoToken
            /\ clears' = clears + 1 + (IF baseHit THEN 1 ELSE 0)
            /\ redirects' = redirects + nav + (IF baseHit THEN nav ELSE 0)
  /\ UNCHANGED <<kind, retry, auth, replayed, pathname, minted>>
  /\ UNCHANGED outsideV1

\* The DELETE of logout settles without a 401 (a 401 would re-enter the
\* refresh interceptor for the DELETE itself; that nesting is left out).
V1LogoutStatuses == {200, 500}

V1LogoutSettle(r, status) ==
  /\ pc[r] = "loggingOut"
  /\ status \in V1LogoutStatuses
  /\ pc' = [pc EXCEPT ![r] = "failed"]
  /\ err' = [err EXCEPT ![r] = "refreshError"]
  /\ clearToken
  /\ RedirectToLogin
  /\ UNCHANGED <<kind, retry, auth, replayed, pathname, minted, refreshInFlight>>
  /\ UNCHANGED outsideV1

NextV1 ==
  \/ \E r \in Req, k \in Kinds : V1Send(r, k)
  \/ \E r \in Req : V1RespondOk(r)
  \/ \E r \in Req, good \in BOOLEAN : V1LoginOk(r, good)
  \/ \E r \in Req, status \in Statuses \ {200} : V1RespondErr(r, status)
  \/ \E r \in Req : V1RefreshOk(r)
  \/ \E r \in Req, status \in Statuses \ {200},
        mode \in {"http", "noData", "undecodable"} : V1RefreshFail(r, status, mode)
  \/ \E r \in Req, status \in V1LogoutStatuses : V1LogoutSettle(r, status)

SpecV1 == Init /\ [][NextV1]_vars

\* ---- LoginForm.onSubmit over the first createAuthService -----------------
\* components/login/LoginForm.tsx lines 111-134: onSubmit awaits
\* Promise.race([login(data), timeoutPromise]).  login is useAuth.login
\* (unnamed/part_004 lines 251-275), which awaits authService.login, decodes
\* the token and routes.  Time is counted in steps of TickMs; every HTTP
\* call of the axios instance ends within its timeout (base.service.ts 109),
\* so a login outlasts the form's timer only when the interceptor has
\* started further calls for it (refresh, replay, logout).
NFormReq == 1                  \* submits of the login form, and requests beside them
FormReq == 1..NFormReq
TickMs == 2500
LOGIN == 15000                 \* CONFIG.TIMEOUTS.LOGIN
HttpTimeout == 10000           \* axios.create({ timeout })
LoginTicks == LOGIN \div TickMs
HttpTicks == HttpTimeout \div TickMs

\* Submits whose login() promise is still pending.
PendingLogins ==
  {r \in FormReq : kind[r] = "login" /\ pc[r] \in {"sent", "refreshing", "loggingOut"}}

\* HTTP calls started so far for the login of submit r: the POST, then the
\* refresh GET of the interceptor, then the replayed POST or logout's DELETE.
CallsStarted(r) ==
  IF pc[r] = "sent" /\ ~retry[r] THEN 1
  ELSE IF pc[r] = "refreshing" THEN 2
  ELSE 3

\* Time passes for a pending submit: no call outlasts the axios timeout, and
\* the form's timer is not late.
FormTick(r) ==
  /\ r \in PendingLogins
  /\ formClock[r] < HttpTicks * CallsStarted(r)
  /\ formClock[r] < LoginTicks \/ r \in timedOut
  /\ formClock' = [formClock EXCEPT ![r] = formClock[r] + 1]
  /\ UNCHANGED <<authVars, legacyVars, logoutVars, expiryVars, cartVars,
                 pageVars, httpVars, timedOut>>

\* Fault: the timer's callback also cancels the login call.
FormTimeout_Aborts(r) ==
  /\ r \in PendingLogins
  /\ r \notin timedOut
  /\ formClock[r] >= LoginTicks
  /\ timedOut' = timedOut \cup {r}
  /\ pc' = [pc EXCEPT ![r] = "failed"]
  /\ refreshInFlight' = refreshInFlight \ {r}
  /\ UNCHANGED <<kind, retry, auth, err, replayed, token, user, pathname,
                 redirects, clears, isRefreshing, failedQueue, minted, refLog,
                 joined>>
  /\ UNCHANGED <<legacyVars, logoutVars, expiryVars, cartVars, pageVars,
                 httpVars, formClock>>

\* The timer of lines 121-123 fires while login() is pending: timeoutPromise
\* rejects, the race rejects, the catch of line 127 logs 'Login failed:'.
\* Nothing refers to the login call.
FormTimeout(r) ==
  /\ r \in PendingLogins
  /\ r \notin timedOut
  /\ formClock[r] >= LoginTicks
  /\ timedOut' = timedOut \cup {r}
  /\ UNCHANGED <<authVars, legacyVars, logoutVars, expiryVars, cartVars,
                 pageVars, httpVars, formClock>>

NextLoginForm ==
  \/ \E r \in FormReq, k \in Kinds : V1Send(r, k)
  \/ \E r \in FormReq : V1RespondOk(r)
  \/ \E r \in FormReq, good \in BOOLEAN : V1LoginOk(r, good)
  \/ \E r \in FormReq, status \in Statuses \ {200} : V1RespondErr(r, status)
  \/ \E r \in FormReq : V1RefreshOk(r)
  \/ \E r \in FormReq, status \in Statuses \ {200},
        mode \in {"http", "noData", "undecodable"} : V1RefreshFail(r, status, mode)
  \/ \E r \in FormReq, status \in V1LogoutStatuses : V1LogoutSettle(r, status)
  \/ \E r \in FormReq : FormTick(r)
  \/ \E r \in FormReq : FormTimeout(r)

SpecLoginForm == Init /\ [][NextLoginForm]_vars

\* ---- unnamed/part_014: authService with setupInterceptors and a timer ----
\* The token and the decoded identity live in localStorage 'token' / 'user'.
\* refreshToken (lines 138-152) uses plain axios: no interceptor sees it.

TOKEN_EXPIRY_THRESHOLD == 60   \* seconds
TickPeriod == 30               \* seconds between two runs of the timer callback
MaxNow == 90                   \* time horizon of the model, in seconds
TokenLifetime == 90            \* exp - iat of the tokens the server issues
NLegacyReq == 2                \* requests issued through axiosJWT
LgReq == 1..NLegacyReq

\* k runs of logout (lines 158-178) started in the same task: each stops the
\* timer and reads the token; with a token it awaits the DELETE and runs its
\* finally when that settles, without one its finally runs at once.
LgLogoutRuns(k) ==
  /\ timerOn' = FALSE
  /\ IF token # NoToken
     THEN /\ logoutsPending' = logoutsPending + k
          /\ UNCHANGED <<token, user, exp, clears, redirects>>
     ELSE /\ token' = NoToken
          /\ user' = NoToken
          /\ exp' = 0
          /\ clears' = clears + k
          /\ redirects' = redirects + (IF pathname # "/login" THEN k ELSE 0)
          /\ UNCHANGED logoutsPending

\* Rejected handler of the response interceptor (lines 60-77).
LgOnRejected(status, k, _retry) ==
  IF status = 401 /\ ~_retry /\ ~urlIncludesRefresh(k) THEN "refresh" ELSE "reject"

\* Request interceptor (lines 48-55).
LgSend(r, k) ==
  /\ pc[r] = "idle"
  /\ IF k = "login" THEN pathname = "/login" ELSE pathname # "/login"
  /\ pc' = [pc EXCEPT ![r] = "sent"]
  /\ kind' = [kind EXCEPT ![r] = k]
  /\ auth' = [auth EXCEPT ![r] = token]
  /\ UNCHANGED <<retry, err, replayed, token, user, pathname, redirects, clears,
                 minted, refreshInFlight, legacyVars>>
  /\ UNCHANGED outsideLegacy

LgRespondOk(r) ==
  /\ pc[r] = "sent"
  /\ kind[r] = "api"
  /\ pc' = [pc EXCEPT ![r] = "ok"]
  /\ UNCHANGED <<kind, retry, auth, err, replayed, token, user, pathname,
                 redirects, clears, minted, refreshInFlight, legacyVars>>
  /\ UNCHANGED outsideLegacy

\* login (lines 118-132) returns the token; useAuth.login (unnamed/part_004
\* lines 353-363) decodes it, stores token and identity, and routes.
LgLoginOk(r, good) ==
  /\ pc[r] = "sent"
  /\ kind[r] = "login"
  /\ IF good
     THEN /\ minted' = minted + 1
          /\ token' = minted + 1
          /\ user' = minted + 1
          /\ exp' = now + TokenLifetime
          /\ pathname' = "/admin"
          /\ pc' = [pc EXCEPT ![r] = "ok"]
          /\ UNCHANGED err
     ELSE /\ pc' = [pc EXCEPT ![r] = "failed"]
          /\ err' = [err EXCEPT ![r] = "tokenFormat"]
          /\ UNCHANGED <<minted, token, user, exp, pathname>>
  /\ UNCHANGED <<kind, retry, auth, replayed, redirects, clears, refreshInFlight,
                 now, timerOn, tickRefresh, logoutsPending>>
  /\ UNCHANGED outsideLegacy

LgRespondErr(r, status) ==
  /\ pc[r] = "sent"
  /\ IF LgOnRejected(status, kind[r], retry[r]) = "refresh"
     THEN /\ retry' = [retry EXCEPT ![r] = TRUE]         \* line 64
          /\ refreshInFlight' = refreshInFlight \cup {r} \* line 66
          /\ pc' = [pc EXCEPT ![r] = "refreshing"]
          /\ UNCHANGED err
     ELSE /\ pc' = [pc EXCEPT ![r] = "failed"]           \* line 76
          /\ err' = [err EXCEPT ![r] = StatusErr(status)]
          /\ UNCHANGED <<retry, refreshInFlight>>
  /\ UNCHANGED <<kind, auth, replayed, token, user, pathname, redirects, clears,
                 minted, legacyVars>>
  /\ UNCHANGED outsideLegacy

\* Lines 66-70: the new token goes to localStorage 'token' and the request is
\* replayed; the stored identity is not touched.
LgRefreshOk(r) ==
  /\ pc[r] = "refreshing"
  /\ r \in refreshInFlight
  /\ minted' = minted + 1
  /\ token' = minted + 1
  /\ auth' = [auth EXCEPT ![r] = minted + 1]
  /\ pc' = [pc EXCEPT ![r] = "sent"]
  /\ replayed' = [replayed EXCEPT ![r] = TRUE]
  /\ refreshInFlight' = refreshInFlight \ {r}
  /\ UNCHANGED <<kind, retry, err, user, pathname, redirects, clears, legacyVars>>
  /\ UNCHANGED outsideLegacy

\* refreshToken calls logout in its catch (line 149) and the interceptor calls
\* it again (line 72); neither call is awaited.
LgRefreshFail(r) ==
  /\ pc[r] = "refreshing"
  /\ r \in refreshInFlight
  /\ refreshInFlight' = refreshInFlight \ {r}
  /\ pc' = [pc EXCEPT ![r] = "failed"]
  /\ err' = [err EXCEPT ![r] = "refreshError"]
  /\ LgLogoutRuns(2)
  /\ UNCHANGED <<kind, retry, auth, replayed, pathname, minted, now, tickRefresh>>
  /\ UNCHANGED outsideLegacy

\* The DELETE of one logout run settles: its finally (lines 172-177).
LgLogoutSettle ==
  /\ logoutsPending > 0
  /\ logoutsPending' = logoutsPending - 1
  /\ clearToken
  /\ exp' = 0
  /\ RedirectToLogin
  /\ UNCHANGED <<pc, kind, retry, auth, err, replayed, pathname, minted,
                 refreshInFlight, now, timerOn, tickRefresh>>
  /\ UNCHANGED outsideLegacy

\* The callback of setupExpirationTimer (lines 88-110).
LgTick ==
  /\ timerOn
  /\ now < MaxNow
  /\ now' = now + TickPeriod
  /\ tickRefresh' =
       IF token # NoToken /\ user # NoToken /\ exp - now' <= TOKEN_EXPIRY_THRESHOLD
       THEN tickRefresh + 1 ELSE tickRefresh
  /\ UNCHANGED <<pc, kind, retry, auth, err, replayed, token, user, pathname,
                 redirects, clears, minted, refreshInFlight, exp, timerOn,
                 logoutsPending>>
  /\ UNCHANGED outsideLegacy

\* Lines 99-104: the timer's refresh resolves; an undecodable token makes
\* decodeToken throw, which the catch turns into one logout.
LgTickRefreshOk(good) ==
  /\ tickRefresh > 0
  /\ tickRefresh' = tickRefresh - 1
  /\ IF good
     THEN /\ minted' = minted + 1
          /\ token' = minted + 1
          /\ user' = minted + 1
          /\ exp' = now + TokenLifetime
          /\ UNCHANGED <<timerOn, logoutsPending, clears, redirects>>
     ELSE /\ LgLogoutRuns(1)
          /\ UNCHANGED minted
  /\ UNCHANGED <<pc, kind, retry, auth, err, replayed, pathname, refreshInFlight, now>>
  /\ UNCHANGED outsideLegacy

\* The timer's refresh rejects: logout from refreshToken's catch (line 149)
\* and from the catch of line 104.
LgTickRefreshFail ==
  /\ tickRefresh > 0
  /\ tickRefresh' = tickRefresh - 1
  /\ LgLogoutRuns(2)
  /\ UNCHANGED <<pc, kind, retry, auth, err, replayed, pathname, minted,
                 refreshInFlight, now>>
  /\ UNCHANGED outsideLegacy

\* setupInterceptors has run (useAuth's mount effect): the timer is installed.
InitLegacy ==
  /\ pc = [r \in Req |-> "idle"]
  /\ kind = [r \in Req |-> "api"]
  /\ retry = [r \in Req |-> FALSE]
  /\ auth = [r \in Req |-> NoToken]
  /\ err = [r \in Req |-> "none"]
  /\ replayed = [r \in Req |-> FALSE]
  /\ \/ token = NoToken /\ user = NoToken /\ minted = 0 /\ pathname = "/login" /\ exp = 0
     \/ token = 1 /\ user = 1 /\ minted = 1 /\ pathname = "/admin" /\ exp = TokenLifetime
  /\ redirects = 0
  /\ clears = 0
  /\ isRefreshing = FALSE
  /\ failedQueue = <<>>
  /\ refreshInFlight = {}
  /\ refLog = <<>>
  /\ joined = [r \in Req |-> {}]
  /\ now = 0 /\ timerOn = TRUE /\ tickRefresh = 0 /\ logoutsPending = 0
  /\ LogoutIdle /\ ExpiryIdle /\ CartIdle /\ RestIdle

NextLegacy ==
  \/ \E r \in LgReq, k \in Kinds : LgSend(r, k)
  \/ \E r \in LgReq : LgRespondOk(r)
  \/ \E r \in LgReq, good \in BOOLEAN : LgLoginOk(r, good)
  \/ \E r \in LgReq, status \in Statuses \ {200} : LgRespondErr(r, status)
  \/ \E r \in LgReq : LgRefreshOk(r)
  \/ \E r \in LgReq : LgRefreshFail(r)
  \/ LgLogoutSettle
  \/ LgTick
  \/ \E good \in BOOLEAN : LgTickRefreshOk(good)
  \/ LgTickRefreshFail

SpecLegacy == InitLegacy /\ [][NextLegacy]_vars

\* ---- logout() called from the logout button ------------------------------
\* services/auth.service.ts lines 271-289 and 446-464; the button is part of
\* the protected pages (components/LogoutButton.tsx).
MaxLogouts == 3                \* clicks on the logout button

\* Fault: the catch after the DELETE is missing, its error leaves logout().
CatchLogoutError_Rethrow(status) ==
  IF status = 200 THEN "continue" ELSE "throw"

\* request({...}).catch(error => { console.log(error) }), lines 276-282:
\* whatever the DELETE answers, logout() goes on.
CatchLogoutError(status) == "continue"

\* Lines 284-288, reached unless the await threw.
LogoutEnds(via, status) ==
  /\ ulVias' = ulVias \cup {via}
  /\ IF CatchLogoutError(status) = "continue"
       THEN /\ clearToken
            /\ RedirectToLogin
            /\ ulRejected' = ulRejected
       ELSE /\ ulRejected' = TRUE
            /\ UNCHANGED <<token, user, clears, redirects>>

\* Lines 272-275: with a token the DELETE is sent and awaited; without one
\* the run goes straight to its end.
UserLogout ==
  /\ pathname # "/login"
  /\ ulStarted < MaxLogouts
  /\ ulStarted' = ulStarted + 1
  /\ IF token # NoToken
       THEN /\ ulPending' = ulPending + 1
            /\ UNCHANGED <<token, user, clears, redirects, ulVias, ulRejected>>
       ELSE /\ ulPending' = ulPending
            /\ LogoutEnds("skipped", 200)
  /\ UNCHANGED <<pc, kind, retry, auth, err, replayed, pathname, isRefreshing,
                 failedQueue, minted, refreshInFlight, refLog, joined>>
  /\ UNCHANGED <<legacyVars, expiryVars, cartVars, restVars>>

\* The DELETE settles; an error answer passes the interceptor (skipRefreshToken).
UserLogoutSettle(status) ==
  /\ ulPending > 0
  /\ status # 200 => OnRejected(status, "logout", FALSE, isRefreshing) = "reject"
  /\ ulPending' = ulPending - 1
  /\ ulStarted' = ulStarted
  /\ LogoutEnds(IF status = 200 THEN "ok" ELSE "error", status)
  /\ UNCHANGED <<pc, kind, retry, auth, err, replayed, pathname, isRefreshing,
                 failedQueue, minted, refreshInFlight, refLog, joined>>
  /\ UNCHANGED <<legacyVars, expiryVars, cartVars, restVars>>

NextLogout ==
  \/ NextLive
  \/ UserLogout
  \/ \E status \in Statuses : UserLogoutSettle(status)

SpecLogout == Init /\ [][NextLogout]_vars

\* ---- tokenService.isTokenExpiringSoon (unnamed/part_016 180-191) ---------
\* The class TokenService of lines 83-117 computes the same (lines 106-116).
EXPIRY_THRESHOLD == 60         \* seconds
TicksPerSecond == 2            \* the clock counts half seconds
MaxClock == 6                  \* how long the clock is followed
Lifetimes == {30, 60, 61, 62}  \* exp - iat of the tokens the server issues

\* Math.floor(Date.now() / 1000)
FloorSeconds(c) == c \div TicksPerSecond

\* Fault: the comparison with the threshold is strict.
isTokenExpiringSoon_Strict(t, e, c) ==
  IF t = NoToken THEN TRUE
  ELSE IF ~Decodable(t) THEN TRUE
  ELSE e - FloorSeconds(c) < EXPIRY_THRESHOLD

\* t: the stored token, e: its exp claim, c: the clock.
isTokenExpiringSoon(t, e, c) ==
  IF t = NoToken THEN TRUE                       \* if (!token) return true
  ELSE IF ~Decodable(t) THEN TRUE                \* catch { return true }
  ELSE e - FloorSeconds(c) <= EXPIRY_THRESHOLD

\* A login or refresh stores the token of the answer (setToken); a decodable
\* one expires life seconds after the second in which it was issued.
StoreToken(t, life) ==
  /\ setToken(t)
  /\ tokenExp' = IF Decodable(t) THEN FloorSeconds(clock) + life ELSE tokenExp
  /\ soon' = Unset
  /\ clock' = clock
  /\ UNCHANGED <<pc, kind, retry, auth, err, replayed, pathname, redirects,
                 clears, isRefreshing, failedQueue, minted, refreshInFlight,
                 refLog, joined>>
  /\ UNCHANGED <<legacyVars, logoutVars, cartVars, restVars>>

\* Half a second passes.
ClockTick ==
  /\ clock < MaxClock
  /\ clock' = clock + 1
  /\ soon' = Unset
  /\ tokenExp' = tokenExp
  /\ UNCHANGED <<authVars, legacyVars, logoutVars, cartVars, restVars>>

CallIsTokenExpiringSoon ==
  /\ soon' = <<isTokenExpiringSoon(token, tokenExp, clock)>>
  /\ UNCHANGED <<clock, tokenExp>>
  /\ UNCHANGED <<authVars, legacyVars, logoutVars, cartVars, restVars>>

InitExpiry ==
  /\ NoRequests /\ LegacyOff /\ LogoutIdle /\ CartIdle /\ ExpiryIdle /\ RestIdle
  /\ token = NoToken /\ user = NoToken /\ minted = 0 /\ pathname = "/login"

NextExpiry ==
  \/ \E t \in {1, BadToken}, life \in Lifetimes : StoreToken(t, life)
  \/ ClockTick
  \/ CallIsTokenExpiringSoon

SpecExpiry == InitExpiry /\ [][NextExpiry]_vars

\* ---- hooks/useCart.ts ----------------------------------------------------
\* One action is one event handler, or the effects of one committed render:
\* React runs the effects of a render before it handles the next event.
NProd == 2                     \* product ids known to the server
ProductIds == 1..NProd
MaxQty == 2                    \* clicks on + followed for one line
Names == {"Espresso", "Latte"}
Prices == {10000, 25000}

Product == [id : ProductIds, name : Names, price : Prices]
CartItem == [id : ProductIds, name : Names, price : Prices, quantity : 1..MaxQty]

DistinctIds(seq) ==
  \A i, j \in DOMAIN seq : seq[i].id = seq[j].id => i = j

\* What the products query can deliver: any products, listed by id.
Catalogs ==
  {c \in UNION {[1..n -> Product] : n \in 0..NProd} :
     \A i, j \in DOMAIN c : i < j => c[i].id < c[j].id}

\* Array.prototype.find by id: the index of the first match, 0 for undefined.
FindById(seq, id) ==
  IF \E i \in DOMAIN seq : seq[i].id = id
    THEN CHOOSE i \in DOMAIN seq :
           /\ seq[i].id = id
           /\ \A j \in DOMAIN seq : seq[j].id = id => i <= j
    ELSE 0

\* JSON.stringify of a CartItem[]: brackets around the values of each item
\* in key order; the empty array is the text [].
RECURSIVE ItemsText(_)
ItemsText(c) ==
  IF c = <<>> THEN <<>>
  ELSE <<c[1].id, c[1].name, c[1].price, c[1].quantity>> \o ItemsText(Tail(c))

JSONstringify(c) == <<"[">> \o ItemsText(c) \o <<"]">>

\* Fault: the parsed items come back in reverse order.
JSONparse_Reversed(text) ==
  LET n == (Len(text) - 2) \div 4 IN
  [i \in 1..n |->
     LET k == 1 + 4 * (n - i) IN
       [id |-> text[k + 1], name |-> text[k + 2],
        price |-> text[k + 3], quantity |-> text[k + 4]]]

\* JSON.parse of such a text.
JSONparse(text) ==
  LET n == (Len(text) - 2) \div 4 IN
  [i \in 1..n |->
     LET k == 1 + 4 * (i - 1) IN
       [id |-> text[k + 1], name |-> text[k + 2],
        price |-> text[k + 3], quantity |-> text[k + 4]]]

\* useState initializer (lines 31-36): savedCart ? JSON.parse(savedCart) : []
InitialCart(saved) ==
  IF saved # NoRecord THEN JSONparse(saved) ELSE <<>>

\* { id, name, price, quantity: 1 } of lines 65-70
\* Fault: the new line takes no price from the catalog.
NewCartItem_NoPrice(product) ==
  [id |-> product.id, name |-> product.name, price |-> 0, quantity |-> 1]

NewCartItem(product) ==
  [id |-> product.id, name |-> product.name, price |-> product.price,
   quantity |-> 1]

\* Fault: the existing line is not looked up, a line is always appended.
addToCartUpdate_AlwaysAppend(prods, currentCart, productId) ==
  LET pi == FindById(prods, productId) IN
  IF pi = 0 THEN currentCart
  ELSE Append(currentCart, NewCartItem(prods[pi]))

\* addToCart (lines 54-75): the cart after the call.
addToCartUpdate(prods, currentCart, productId) ==
  LET pi == FindById(prods, productId) IN
  IF pi = 0 THEN currentCart                     \* if (!product) return
  ELSE IF FindById(currentCart, productId) # 0
    THEN [i \in DOMAIN currentCart |->
            IF currentCart[i].id = productId
              THEN [currentCart[i] EXCEPT !.quantity = @ + 1]
              ELSE currentCart[i]]
    ELSE Append(currentCart, NewCartItem(prods[pi]))

\* Fault: a line of quantity 1 is decremented like any other.
decreaseQuantityUpdate_NoRemove(currentCart, productId) ==
  [i \in DOMAIN currentCart |->
     IF currentCart[i].id = productId
       THEN [currentCart[i] EXCEPT !.quantity = @ - 1]
       ELSE currentCart[i]]

\* decreaseQuantity (lines 81-92): the cart returned by the updater.
decreaseQuantityUpdate(currentCart, productId) ==
  LET ci == FindById(currentCart, productId) IN
  IF ci = 0 THEN currentCart
  ELSE IF currentCart[ci].quantity = 1
    THEN SelectSeq(currentCart, LAMBDA item : item.id # productId)
    ELSE [i \in DOMAIN currentCart |->
            IF currentCart[i].id = productId
              THEN [currentCart[i] EXCEPT !.quantity = @ - 1]
              ELSE currentCart[i]]

\* Fault: lines whose product has left the catalog are dropped.
updatedCart_DropAbsent(prods, c) ==
  LET kept == SelectSeq(c, LAMBDA item : FindById(prods, item.id) # 0) IN
  [i \in DOMAIN kept |->
     LET pi == FindById(prods, kept[i].id) IN
       [kept[i] EXCEPT !.name = prods[pi].name, !.price = prods[pi].price]]

\* The map of the catalog effect (lines 127-140).
updatedCart(prods, c) ==
  [i \in DOMAIN c |->
     LET pi == FindById(prods, c[i].id) IN
       IF pi = 0 THEN c[i]
       ELSE IF prods[pi].name # c[i].name \/ prods[pi].price # c[i].price
         THEN [c[i] EXCEPT !.name = prods[pi].name, !.price = prods[pi].price]
         ELSE c[i]]

\* Fault: the empty cart is stored as an empty array.
persisted_EmptyArray(c) == JSONstringify(c)

\* Persistence effect (lines 42-48): the slot after it has run.
persisted(c) ==
  IF Len(c) = 0 THEN NoRecord ELSE JSONstringify(c)

outsideCart == <<authVars, legacyVars, logoutVars, expiryVars, restVars>>

\* addToCart (lines 54-75); setCart is called unless the product is unknown.
addToCart(productId) ==
  /\ ~effectsPending
  /\ \A i \in DOMAIN cart : cart[i].id = productId => cart[i].quantity < MaxQty
  /\ cart' = addToCartUpdate(products, cart, productId)
  /\ effectsPending' = (FindById(products, productId) # 0)
  /\ totals' = Unset
  /\ UNCHANGED <<products, stored>>
  /\ UNCHANGED outsideCart

\* decreaseQuantity (lines 81-92); returning currentCart itself renders nothing.
decreaseQuantity(productId) ==
  /\ ~effectsPending
  /\ cart' = decreaseQuantityUpdate(cart, productId)
  /\ effectsPending' = (FindById(cart, productId) # 0)
  /\ totals' = Unset
  /\ UNCHANGED <<products, stored>>
  /\ UNCHANGED outsideCart

\* resetCart (lines 117-119): setCart([])
resetCart ==
  /\ ~effectsPending
  /\ cart' = <<>>
  /\ effectsPending' = TRUE
  /\ totals' = Unset
  /\ UNCHANGED <<products, stored>>
  /\ UNCHANGED outsideCart

\* The products query delivers a catalog: useCart(products) renders again.
ProductsChange(c) ==
  /\ ~effectsPending
  /\ products' = c
  /\ effectsPending' = TRUE
  /\ totals' = Unset
  /\ UNCHANGED <<cart, stored>>
  /\ UNCHANGED outsideCart

\* Fault: the catalog effect commits its cart without comparing it.
RunEffects_AlwaysCommits ==
  /\ effectsPending
  /\ stored' = persisted(cart)
  /\ IF Len(products) > 0 /\ Len(cart) > 0
       THEN /\ cart' = updatedCart(products, cart)
            /\ effectsPending' = TRUE
       ELSE /\ cart' = cart
            /\ effectsPending' = FALSE
  /\ totals' = Unset
  /\ UNCHANGED products
  /\ UNCHANGED outsideCart

\* The effects of the committed render, in the order of the hook: the
\* persistence effect (lines 42-48), then the catalog effect (lines 125-147),
\* whose setCart commits another render.
RunEffects ==
  /\ effectsPending
  /\ stored' = persisted(cart)
  /\ LET u == updatedCart(products, cart) IN
       IF Len(products) > 0 /\ Len(cart) > 0
          /\ JSONstringify(u) # JSONstringify(cart)
         THEN /\ cart' = u
              /\ effectsPending' = TRUE
         ELSE /\ cart' = cart
              /\ effectsPending' = FALSE
  /\ totals' = Unset
  /\ UNCHANGED products
  /\ UNCHANGED outsideCart

\* The page is loaded again: useState's initializer reads the slot, the
\* products query has no data yet.
Reload ==
  /\ cart' = InitialCart(stored)
  /\ products' = <<>>
  /\ effectsPending' = TRUE
  /\ totals' = Unset
  /\ UNCHANGED stored
  /\ UNCHANGED outsideCart

\* The first visit of the page: nothing is stored yet.
InitCart ==
  /\ NoRequests /\ LegacyOff /\ LogoutIdle /\ ExpiryIdle /\ RestIdle
  /\ token = 1 /\ user = 1 /\ minted = 1 /\ pathname = "/admin"
  /\ stored = NoRecord
  /\ cart = InitialCart(stored)
  /\ products = <<>>
  /\ effectsPending = TRUE
  /\ totals = Unset

NextCart ==
  \/ \E p \in ProductIds : addToCart(p)
  \/ \E p \in ProductIds : decreaseQuantity(p)
  \/ resetCart
  \/ \E c \in Catalogs : ProductsChange(c)
  \/ RunEffects
  \/ Reload

SpecCart == InitCart /\ [][NextCart]_vars

\* ---- getCartTotals (hooks/useCart.ts lines 99-112) ------------------------
\* A JavaScript number with at most two decimals: units + hundredths / 100.
Percents == {0, 1, 7, 10, 50, 99, 100}   \* of the range 0..100
TotalsPrices == {4550, 10000, 25000}

\* The carts getCartTotals is applied to.
TotalsCarts ==
  {c \in UNION {[1..n -> [id : ProductIds, name : {"Espresso"},
                          price : TotalsPrices, quantity : 1..MaxQty]] :
                n \in 0..NProd} : DistinctIds(c)}

\* cart.reduce((sum, item) => sum + item.price * item.quantity, 0)
RECURSIVE ReduceSubtotal(_, _)
ReduceSubtotal(c, sum) ==
  IF c = <<>> THEN sum
  ELSE ReduceSubtotal(Tail(c), sum + c[1].price * c[1].quantity)

\* n / 100 for an integer n >= 0
DivideBy100(n) == [units |-> n \div 100, hundredths |-> n % 100]

\* integer + decimal
PlusDecimal(n, d) == [units |-> n + d.units, hundredths |-> d.hundredths]

\* Fault: the service charge is computed but not added to the total.
CartTotals_ChargeNotAdded(c, serviceChargePercentage) ==
  LET subtotal == ReduceSubtotal(c, 0)
      serviceChargeAmount == DivideBy100(subtotal * serviceChargePercentage)
  IN [subtotal |-> subtotal,
      serviceChargeAmount |-> serviceChargeAmount,
      totalAmount |-> PlusDecimal(subtotal, DivideBy100(0))]

CartTotals(c, serviceChargePercentage) ==
  LET subtotal == ReduceSubtotal(c, 0)
      serviceChargeAmount == DivideBy100(subtotal * serviceChargePercentage)
      totalAmount == PlusDecimal(subtotal, serviceChargeAmount)
  IN [subtotal |-> subtotal,
      serviceChargeAmount |-> serviceChargeAmount,
      totalAmount |-> totalAmount]

\* A render calls getCartTotals(serviceCharge) for the cart on screen.
getCartTotals(serviceChargePercentage) ==
  /\ ~effectsPending
  /\ totals' = <<[percent |-> serviceChargePercentage,
                  result |-> CartTotals(cart, serviceChargePercentage)]>>
  /\ UNCHANGED <<products, cart, stored, effectsPending>>
  /\ UNCHANGED outsideCart

\* The cashier page with some cart on screen, its effects run.
InitTotals ==
  /\ NoRequests /\ LegacyOff /\ LogoutIdle /\ ExpiryIdle /\ RestIdle
  /\ token = 1 /\ user = 1 /\ minted = 1 /\ pathname = "/admin"
  /\ cart \in TotalsCarts
  /\ stored = persisted(cart)
  /\ products = <<>>
  /\ effectsPending = FALSE
  /\ totals = Unset

NextTotals ==
  \E pct \in Percents : getCartTotals(pct)

SpecTotals == InitTotals /\ [][NextTotals]_vars

\* ---- TransactionsPage: the callers of addToCart ---------------------------
\* components/transactions/transactions.tsx: the product cards call
\* handleAddToCart (lines 54-58), the cart lines call addToCart(item.id)
\* (line 160) and decreaseQuantity(item.id) (line 161).  The products query
\* delivers the catalog with each product's stock.
StockLevels == {0, 3}

\* The catalogs of the page: one name and one price throughout.
PageCatalogs ==
  {c \in Catalogs :
     \A i \in DOMAIN c : c[i].name = "Espresso" /\ c[i].price = 10000}

\* handleAddToCart (lines 54-58), called by the button of a product card
\* (unnamed/part_009 lines 33-40) with a product of the catalog.
handleAddToCart(productId) ==
  /\ FindById(products, productId) # 0
  /\ IF stock[productId] > 0
       THEN addToCart(productId)
       ELSE UNCHANGED vars

\* onIncrease of a cart line (line 160; the + button of unnamed/part_010
\* lines 50-56).
onIncrease(productId) ==
  /\ FindById(cart, productId) # 0
  /\ addToCart(productId)

\* onDecrease of a cart line (line 161).
onDecrease(productId) ==
  /\ FindById(cart, productId) # 0
  /\ decreaseQuantity(productId)

\* The products query delivers a page again (line 44): catalog and stock.
ProductsRefetch(c, st) ==
  /\ ~effectsPending
  /\ products' = c
  /\ stock' = st
  /\ effectsPending' = TRUE
  /\ totals' = Unset
  /\ UNCHANGED <<cart, stored>>
  /\ UNCHANGED <<authVars, legacyVars, logoutVars, expiryVars, httpVars, formVars,
                 serviceCharge, isOrderConfirmed, ordersInFlight, payload>>

InitStock ==
  /\ NoRequests /\ LegacyOff /\ LogoutIdle /\ ExpiryIdle /\ HttpIdle /\ FormIdle
  /\ token = 1 /\ user = 1 /\ minted = 1 /\ pathname = "/admin"
  /\ stored = NoRecord
  /\ cart = InitialCart(stored)
  /\ products = <<>>
  /\ stock = [p \in ProductIds |-> 0]
  /\ effectsPending = TRUE
  /\ totals = Unset
  /\ serviceCharge = 0 /\ isOrderConfirmed = FALSE /\ ordersInFlight = 0
  /\ payload = Unset

NextStock ==
  \/ \E p \in ProductIds : handleAddToCart(p)
  \/ \E p \in ProductIds : onIncrease(p)
  \/ \E p \in ProductIds : onDecrease(p)
  \/ \E c \in PageCatalogs, st \in [ProductIds -> StockLevels] : ProductsRefetch(c, st)
  \/ RunEffects

SpecStock == InitStock /\ [][NextStock]_vars

\* ---- TransactionsPage: submitting an order --------------------------------
\* components/transactions/transactions.tsx lines 60-101 and
\* components/transactions/OrderForm.tsx.  The page shows some cart; the
\* cashier sets the service charge, submits the order form, and closes the
\* confirmation dialog that a created transaction opens.
MaxOrders == 1                 \* createMutation.mutateAsync calls pending at once

\* e.target.value of the service charge input as parseFloat reads it.
ChargeInputs ==
  [nan : {FALSE}, num : {-5, 0, 7, 50, 100, 150}] \cup {[nan |-> TRUE, num |-> 0]}

\* parseFloat(e.target.value) || 0
OrZero(v) == IF v.nan \/ v.num = 0 THEN 0 ELSE v.num

Max(a, b) == IF a >= b THEN a ELSE b
Min(a, b) == IF a <= b THEN a ELSE b

\* Math.max(0, Math.min(100, value)), OrderForm.tsx line 67.
clampedValue(value) == Max(0, Min(100, value))

\* cart.reduce((sum, item) => sum + item.quantity, 0)
RECURSIVE ReduceQuantity(_, _)
ReduceQuantity(c, sum) ==
  IF c = <<>> THEN sum ELSE ReduceQuantity(Tail(c), sum + Head(c).quantity)

\* Fault: every item is sent with its unit price as amount.
transactionPayload_UnitPrice(c, t, sc) ==
  [customer_name |-> "customer",
   total_quantity |-> ReduceQuantity(c, 0),
   total_amount |-> t.totalAmount,
   payment_method_id |-> 1,
   service_charge |-> DivideBy100(sc),
   transaction_items |->
     [i \in DOMAIN c |-> [product_id |-> c[i].id, quantity |-> c[i].quantity,
                          amount |-> c[i].price]]]

\* The object literal of lines 70-81; t is the totals of the render (line 61).
transactionPayload(c, t, sc) ==
  [customer_name |-> "customer",
   total_quantity |-> ReduceQuantity(c, 0),
   total_amount |-> t.totalAmount,
   payment_method_id |-> 1,
   service_charge |-> DivideBy100(sc),
   transaction_items |->
     [i \in DOMAIN c |-> [product_id |-> c[i].id, quantity |-> c[i].quantity,
                          amount |-> c[i].price * c[i].quantity]]]

outsideOrder == <<authVars, legacyVars, logoutVars, expiryVars, httpVars,
                  formVars, stock, products, totals>>

\* handleServiceChargeChange (OrderForm.tsx lines 65-69) with
\* onServiceChargeChange = setServiceCharge; the form exists while the cart
\* has lines (lines 56-59) and is covered while the dialog is open.
handleServiceChargeChange(v) ==
  /\ ~effectsPending
  /\ cart # <<>>
  /\ ~isOrderConfirmed
  /\ serviceCharge' = clampedValue(OrZero(v))
  /\ effectsPending' = (serviceCharge' # serviceCharge)
  /\ UNCHANGED <<cart, stored, isOrderConfirmed, ordersInFlight, payload>>
  /\ UNCHANGED outsideOrder

\* handleConfirmOrder up to its await (lines 67-84).
handleConfirmOrder ==
  /\ ~effectsPending
  /\ cart # <<>>
  /\ ~isOrderConfirmed
  /\ ordersInFlight < MaxOrders
  /\ payload' = <<transactionPayload(cart, CartTotals(cart, serviceCharge),
                                     serviceCharge)>>
  /\ ordersInFlight' = ordersInFlight + 1
  /\ effectsPending' = TRUE                      \* setFormData(data)
  /\ UNCHANGED <<cart, stored, serviceCharge, isOrderConfirmed>>
  /\ UNCHANGED outsideOrder

\* mutateAsync resolves: setIsOrderConfirmed(true), line 85.
OrderCreated ==
  /\ ~effectsPending
  /\ ordersInFlight > 0
  /\ ordersInFlight' = ordersInFlight - 1
  /\ isOrderConfirmed' = TRUE
  /\ effectsPending' = ~isOrderConfirmed
  /\ UNCHANGED <<cart, stored, serviceCharge, payload>>
  /\ UNCHANGED outsideOrder

\* mutateAsync rejects: console.error, lines 86-88.
OrderFailed ==
  /\ ~effectsPending
  /\ ordersInFlight > 0
  /\ ordersInFlight' = ordersInFlight - 1
  /\ UNCHANGED <<cart, stored, serviceCharge, isOrderConfirmed, payload,
                 effectsPending>>
  /\ UNCHANGED outsideOrder

\* handleDialogClose (lines 95-101), the onClose of the open OrderConfirmation.
handleDialogClose ==
  /\ ~effectsPending
  /\ isOrderConfirmed
  /\ isOrderConfirmed' = FALSE
  /\ serviceCharge' = 0
  /\ cart' = <<>>                                \* resetCart()
  /\ effectsPending' = TRUE
  /\ UNCHANGED <<stored, ordersInFlight, payload>>
  /\ UNCHANGED outsideOrder

\* The page is loaded again between two events: every useState starts
\* over (lines 33-36), the cart from the slot; pending promises are gone.
PageReload ==
  /\ ~effectsPending
  /\ cart' = InitialCart(stored)
  /\ serviceCharge' = 0
  /\ isOrderConfirmed' = FALSE
  /\ ordersInFlight' = 0
  /\ payload' = Unset
  /\ effectsPending' = TRUE
  /\ UNCHANGED stored
  /\ UNCHANGED outsideOrder

InitOrder ==
  /\ NoRequests /\ LegacyOff /\ LogoutIdle /\ ExpiryIdle /\ RestIdle
  /\ token = 1 /\ user = 1 /\ minted = 1 /\ pathname = "/admin"
  /\ cart \in TotalsCarts
  /\ stored = persisted(cart)
  /\ products = <<>>
  /\ effectsPending = FALSE
  /\ totals = Unset

NextOrder ==
  \/ \E v \in ChargeInputs : handleServiceChargeChange(v)
  \/ handleConfirmOrder
  \/ OrderCreated
  \/ OrderFailed
  \/ handleDialogClose
  \/ \E p \in ProductIds : ~isOrderConfirmed /\ onDecrease(p)
  \/ PageReload
  \/ RunEffects

SpecOrder == InitOrder /\ [][NextOrder]_vars

\* Effects run after every committed render and the network call of the
\* mutation settles; the cashier closes a confirmation dialog that stays
\* open.  Nothing makes the cashier do anything else.
FairSpecOrder ==
  /\ SpecOrder
  /\ WF_vars(RunEffects)
  /\ WF_vars(OrderCreated \/ OrderFailed)
  /\ WF_vars(handleDialogClose)

\* ---- createHttpClient.request: base.service.ts and unnamed/part_016 -----
\* One call site (which createHttpClient, method, url) calls request() again
\* and again; the server's answer, the browser's online flag and what the
\* response interceptors of the instance throw are inputs.
NoStatus == 0                  \* error.response?.status === undefined
Methods == {"GET", "POST", "PUT", "DELETE"}
\* config.url by its path segments.
Urls == {<<"api", "users", "login">>, <<"api", "users">>, <<"api", "products">>}
ErrStatuses == {400, 401, 409, 418, 500}
\* response.data.data: missing, null, an array, an object.
DataKinds == {"absent", "null", "array", "object"}
PagingKinds == {"absent", "paging"}

Sites == [impl : {"base.service", "http.service"}, method : Methods, url : Urls]

\* What axiosInstance(config) settles with.  fault "none": a 2xx response;
\* "response": an AxiosError with a response; "noResponse": an AxiosError
\* without one (network, timeout); "interceptorApiError", "interceptorError":
\* the rejected handler of a response interceptor of the instance threw
\* what its refreshToken() threw (auth.service.ts line 216), the ApiError of
\* the nested request() or the Error of line 262.
Answers ==
  [fault : {"none"}, status : {200}, data : DataKinds, paging : PagingKinds,
   bodyErrors : {FALSE}, bodyMessage : {FALSE}]
  \cup
  [fault : {"response"}, status : ErrStatuses, data : {"absent"},
   paging : {"absent"}, bodyErrors : BOOLEAN, bodyMessage : BOOLEAN]
  \cup
  [fault : {"noResponse", "interceptorApiError", "interceptorError"},
   status : {NoStatus}, data : {"absent"}, paging : {"absent"},
   bodyErrors : {FALSE}, bodyMessage : {FALSE}]

NoAnswer ==
  [fault |-> "notCalled", status |-> NoStatus, data |-> "absent",
   paging |-> "absent", bodyErrors |-> FALSE, bodyMessage |-> FALSE]
NoError == [class |-> "none", message |-> "", status |-> NoStatus, body |-> FALSE]
NoValue == [of |-> "none", data |-> "absent", paging |-> "absent"]

NotCalled(site) ==
  [site |-> site, online |-> TRUE, answer |-> NoAnswer, thrown |-> NoError,
   value |-> NoValue]

\* new ApiError(message, status, data), types/api.ts lines 1-6.
ApiError(message, status, body) ==
  [class |-> "ApiError", message |-> message, status |-> status, body |-> body]

\* The strings a response body carries in errors and in message.
ErrorsText == "Username already exists"
MessageText == "Validation failed"

\* config.url?.includes(word), for the urls of Urls.
includes(url, word) == \E i \in DOMAIN url : url[i] = word

\* JavaScript truthiness of response.data.data.
Truthy(d) == d \in {"array", "object"}

\* base.service.ts lines 159-176.
getErrorMessage(status) ==
  CASE status = 400 -> "Bad request"
    [] status = 401 -> "Unauthorized access"
    [] status = 403 -> "Access forbidden"
    [] status = 404 -> "Resource not found"
    [] status = 409 -> "Data conflict"
    [] status = 500 -> "Server error"
    [] OTHER -> "An unexpected error occurred"

\* base.service.ts lines 126-150, for an AxiosError.
handleError(online, answer) ==
  IF ~online THEN ApiError("No internet connection", NoStatus, FALSE)
  ELSE LET status == IF answer.fault = "response" THEN answer.status ELSE NoStatus
           message == IF answer.bodyErrors THEN ErrorsText
                      ELSE IF answer.bodyMessage THEN MessageText
                      ELSE getErrorMessage(status) IN
         ApiError(message, status, answer.fault = "response")

\* What the catch of request() throws (lines 211-216 here, lines 64-69 in
\* unnamed/part_016): handleError for an AxiosError, anything else as it is.
\* nested is the ApiError the interceptor's own request() made of the 401
\* answer to its refresh call.
RefreshRejected ==
  [fault |-> "response", status |-> 401, data |-> "absent",
   paging |-> "absent", bodyErrors |-> FALSE, bodyMessage |-> FALSE]

Rethrown(answer, nested) ==
  IF answer.fault = "interceptorApiError"
  THEN nested
  ELSE [class |-> "Error", message |-> "Invalid refresh token response",
        status |-> NoStatus, body |-> FALSE]

isAxiosError(answer) == answer.fault \in {"response", "noResponse"}

WholeBody(answer) ==
  [of |-> "response.data", data |-> answer.data, paging |-> answer.paging]
InnerData(answer) ==
  [of |-> "response.data.data", data |-> answer.data, paging |-> "absent"]

\* base.service.ts lines 198-210.
Unwrap(config, answer) ==
  IF includes(config.url, "login") THEN WholeBody(answer)
  ELSE IF /\ \/ includes(config.url, "users")
             \/ includes(config.url, "categories")
             \/ includes(config.url, "payments")
          /\ config.method = "GET"
    THEN WholeBody(answer)
  ELSE IF config.method \in {"POST", "PUT", "DELETE"} THEN InnerData(answer)
  ELSE IF Truthy(answer.data) THEN InnerData(answer) ELSE WholeBody(answer)

outsideHttp == <<authVars, legacyVars, logoutVars, expiryVars, cartVars,
                 pageVars, formVars>>

\* request of base.service.ts, lines 194-217.
request(online, answer) ==
  /\ httpCall.site.impl = "base.service"
  /\ answer.fault = "none" => online
  /\ httpPrev' = httpCall
  /\ httpCall' =
       [site |-> httpCall.site, online |-> online, answer |-> answer,
        thrown |-> IF answer.fault = "none" THEN NoError
                   ELSE IF isAxiosError(answer) THEN handleError(online, answer)
                   ELSE Rethrown(answer, handleError(online, RefreshRejected)),
        value |-> IF answer.fault = "none" THEN Unwrap(httpCall.site, answer)
                  ELSE NoValue]
  /\ UNCHANGED outsideHttp

\* unnamed/part_016 lines 39-52.
HttpService_getErrorMessage(status) ==
  CASE status = 401 -> "Unauthorized access"
    [] status = 403 -> "Access forbidden"
    [] status = 404 -> "Resource not found"
    [] status = 500 -> "Server error"
    [] OTHER -> "An unexpected error occurred"

\* unnamed/part_016 lines 25-32.
HttpService_handleError(online, answer) ==
  IF ~online THEN ApiError("No internet connection", NoStatus, FALSE)
  ELSE LET status == IF answer.fault = "response" THEN answer.status ELSE NoStatus IN
         ApiError(HttpService_getErrorMessage(status), status,
                  answer.fault = "response")

\* request of unnamed/part_016, lines 60-70: response.data as it is.
HttpService_request(online, answer) ==
  /\ httpCall.site.impl = "http.service"
  /\ answer.fault = "none" => online
  /\ httpPrev' = httpCall
  /\ httpCall' =
       [site |-> httpCall.site, online |-> online, answer |-> answer,
        thrown |-> IF answer.fault = "none" THEN NoError
                   ELSE IF isAxiosError(answer)
                     THEN HttpService_handleError(online, answer)
                   ELSE Rethrown(answer,
                                 HttpService_handleError(online, RefreshRejected)),
        value |-> IF answer.fault = "none" THEN WholeBody(answer) ELSE NoValue]
  /\ UNCHANGED outsideHttp

InitHttp ==
  /\ NoRequests /\ LegacyOff /\ LogoutIdle /\ ExpiryIdle /\ CartIdle
  /\ PageIdle /\ FormIdle
  /\ token = 1 /\ user = 1 /\ minted = 1 /\ pathname = "/admin"
  /\ \E site \in Sites :
       /\ httpCall = NotCalled(site)
       /\ httpPrev = NotCalled(site)

NextHttp ==
  \/ \E online \in BOOLEAN, answer \in Answers : request(online, answer)
  \/ \E online \in BOOLEAN, answer \in Answers : HttpService_request(online, answer)

SpecHttp == InitHttp /\ [][NextHttp]_vars

\* ---- claims -------------------------------------------------------------

\* C1: at most one call of the refresh endpoint is in flight at any time, and
\* a 401 handled while isRefreshing is true starts no refreshToken() call.
C1_SingleRefreshInFlight ==
  /\ [](Cardinality(refreshInFlight) <= 1)
  /\ [][isRefreshing => Len(refLog') = Len(refLog)]_vars

C1_Witness ==
  /\ isRefreshing
  /\ refreshInFlight # {}
  /\ Len(failedQueue) >= 1

\* Refresh n was started by a request answered 401 for the first time.
FirstTime(n) == \A m \in joined[refLog[n].owner] : m >= n

NFailed == Cardinality({n \in DOMAIN refLog : refLog[n].outcome = "failed"})

C4_NoEntryLeftPending ==
  \A r \in Req : pc[r] = "queued" => refreshInFlight # {}

\* C5: once isRefreshing is true it becomes false again, on the success path
\* and on the failure path, given that the refresh and logout calls settle.
C5_FlagEventuallyCleared == isRefreshing ~> ~isRefreshing

C5_Witness ==
  /\ isRefreshing
  /\ \E r \in Req : pc[r] = "loggingOut"

\* C7: over all 401 answers to a request and to its replays, the request
\* goes through at most one refresh.
C7_AtMostOneRefreshPerRequest ==
  \A r \in Req : Cardinality(joined[r]) <= 1

\* C8: when the handling of a failed refresh completes the stored token is
\* absent, navigation to /login has been requested and the originating
\* request has failed with the refresh error; the handling does complete.
C8_FailedRefreshDestroysSession ==
  /\ [][\A n \in DOMAIN refLog :
          (refLog[n].outcome # "failed" /\ refLog'[n].outcome = "failed") =>
             /\ token' = NoToken
             /\ user' = NoToken
             /\ redirects' = redirects + 1
             /\ pc'[refLog[n].owner] = "failed"
             /\ err'[refLog[n].owner] = "refreshError"
      ]_vars
  /\ \A r \in Req : (pc[r] = "loggingOut") ~> (pc[r] = "failed")

C8_Witness ==
  \E n \in DOMAIN refLog :
    /\ refLog[n].outcome = "failed"
    /\ token = NoToken
    /\ redirects >= 1
    /\ err[refLog[n].owner] = "refreshError"

\* C6: a 401 answer to the login request never starts a refresh call and
\* never enqueues the request.
C6_LoginNeverRefreshes ==
  \A r \in Req : kind[r] = "login" =>
    /\ pc[r] \notin {"refreshing", "queued", "loggingOut"}
    /\ r \notin refreshInFlight

\* C10: on the transparent path (the 401 that starts a refresh, and the
\* success of that refresh) the stored token is not cleared and no redirect
\* to /login is issued.
C10_TransparentRefresh ==
  [][\A r \in Req :
       (kind[r] = "api" /\ \/ pc[r] = "sent" /\ pc'[r] = "refreshing"
                           \/ pc[r] = "refreshing" /\ pc'[r] = "sent") =>
          /\ clears' = clears
          /\ redirects' = redirects
          /\ token # NoToken => token' # NoToken
    ]_vars

\* C9: the expiry timer and the 401 interceptor share one single-flight
\* discipline: between them at most one refresh call is in flight.
C9_SharedSingleFlight ==
  tickRefresh + Cardinality(refreshInFlight) <= 1

\* C11: in every reachable state the stored access token and the stored
\* decoded identity are both present or both absent.
C11_TokenAndIdentityTogether ==
  (token = NoToken) <=> (user = NoToken)

\* C12: a login that fails leaves the session as it was: the stored token
\* and the stored identity are what they were before the call.
C12_FailedLoginLeavesSession ==
  [][\A r \in Req :
       (kind[r] = "login" /\ pc[r] = "sent" /\ pc'[r] = "failed") =>
          /\ token' = token
          /\ user' = user
    ]_vars

\* C13: logout() never fails for its caller and every run of it ends with
\* the local token cleared and the navigation to /login requested, whether
\* its DELETE succeeded, failed or was skipped for want of a token.
C13_LogoutAlwaysCompletes ==
  [][(ulStarted' - ulPending' > ulStarted - ulPending) =>
        /\ token' = NoToken
        /\ user' = NoToken
        /\ redirects' = redirects + 1
        /\ ~ulRejected'
    ]_vars

C13_Witness ==
  /\ ulVias = {"ok", "error", "skipped"}
  /\ ulPending = 0
  /\ token = NoToken
  /\ ~ulRejected
  /\ redirects >= 3

\* C14: isTokenExpiringSoon() returns true exactly when no token is held,
\* the token cannot be decoded, or exp - now <= 60 seconds; a token whose exp
\* is 30 seconds ahead is expiring soon right after it was stored.
C14_ExpiringSoonExactly ==
  soon # Unset =>
    /\ soon[1] = \/ token = NoToken
                 \/ ~Decodable(token)
                 \/ TicksPerSecond * tokenExp - clock <= TicksPerSecond * 60
    /\ (Decodable(token) /\ tokenExp = FloorSeconds(clock) + 30) => soon[1]

C14_Witness ==
  /\ Decodable(token)
  /\ tokenExp = FloorSeconds(clock) + 30
  /\ clock % TicksPerSecond = 1
  /\ soon = <<TRUE>>

\* C15: starting from an empty cart or a restored cart of that kind, after
\* any sequence of addToCart, decreaseQuantity, resetCart and catalog syncs
\* every line has quantity >= 1 and no two lines share a product id.
C15_CartWellFormed ==
  /\ \A i \in DOMAIN cart : cart[i].quantity >= 1
  /\ \A i, j \in DOMAIN cart : cart[i].id = cart[j].id => i = j

C15_Witness ==
  /\ Len(cart) = 2
  /\ cart[1].id = 2
  /\ cart[1].quantity = 2
  /\ ~effectsPending
  /\ FindById(products, 2) # 0
  /\ cart[1].price = products[FindById(products, 2)].price
  /\ stored = JSONstringify(cart)

\* C16: addToCart(productId) for a product of the catalog adds exactly 1 to
\* the quantity of the existing line, or appends at the end a line of
\* quantity 1 with the catalog's name and price; the other lines and the
\* order stay; for a product not in the catalog the cart is unchanged.
C16_AddToCartExact ==
  [][\A p \in ProductIds : addToCart(p) =>
       IF \A k \in DOMAIN products : products[k].id # p
         THEN cart' = cart
         ELSE IF \E i \in DOMAIN cart : cart[i].id = p
           THEN /\ Len(cart') = Len(cart)
                /\ \A i \in DOMAIN cart :
                     /\ cart'[i].id = cart[i].id
                     /\ cart'[i].name = cart[i].name
                     /\ cart'[i].price = cart[i].price
                     /\ cart'[i].quantity =
                          cart[i].quantity + (IF cart[i].id = p THEN 1 ELSE 0)
           ELSE /\ Len(cart') = Len(cart) + 1
                /\ SubSeq(cart', 1, Len(cart)) = cart
                /\ cart'[Len(cart')].id = p
                /\ cart'[Len(cart')].quantity = 1
                /\ \E k \in DOMAIN products :
                     /\ products[k].id = p
                     /\ cart'[Len(cart')].name = products[k].name
                     /\ cart'[Len(cart')].price = products[k].price
    ]_vars

\* The second line has just been appended: the slot still holds the cart
\* of the first line alone.
C16_Witness ==
  /\ effectsPending
  /\ Len(cart) = 2
  /\ cart[1].quantity = 2
  /\ cart[2].quantity = 1
  /\ stored = JSONstringify(<<cart[1]>>)
  /\ \E k \in DOMAIN products :
       /\ products[k].id = cart[2].id
       /\ products[k].name = cart[2].name
       /\ products[k].price = cart[2].price

\* C17: decreaseQuantity(productId) removes the line when its quantity is 1,
\* takes 1 off when it is larger, and leaves the cart unchanged when there
\* is no such line; the other lines and their order stay.
C17_DecreaseQuantityExact ==
  [][\A p \in ProductIds : decreaseQuantity(p) =>
       IF \A i \in DOMAIN cart : cart[i].id # p
         THEN cart' = cart
         ELSE LET ci == CHOOSE i \in DOMAIN cart : cart[i].id = p IN
           IF cart[ci].quantity = 1
             THEN /\ Len(cart') = Len(cart) - 1
                  /\ \A i \in DOMAIN cart' :
                       cart'[i] = IF i < ci THEN cart[i] ELSE cart[i + 1]
             ELSE /\ Len(cart') = Len(cart)
                  /\ \A i \in DOMAIN cart :
                       /\ cart'[i].id = cart[i].id
                       /\ cart'[i].name = cart[i].name
                       /\ cart'[i].price = cart[i].price
                       /\ cart'[i].quantity =
                            cart[i].quantity - (IF i = ci THEN 1 ELSE 0)
    ]_vars

\* The first of two lines, of quantity 1, has just been removed.
C17_Witness ==
  /\ effectsPending
  /\ Len(cart) = 1
  /\ \E x \in CartItem :
       /\ x.quantity = 1
       /\ x.id # cart[1].id
       /\ stored = JSONstringify(<<x, cart[1]>>)

\* The sum of price * quantity over the first n lines.
RECURSIVE SumLines(_, _)
SumLines(c, n) ==
  IF n = 0 THEN 0 ELSE SumLines(c, n - 1) + c[n].price * c[n].quantity

\* C18: for every cart and every percent in 0..100 getCartTotals returns
\* subtotal = the sum of price * quantity, serviceChargeAmount = subtotal *
\* percent / 100 and totalAmount = subtotal + serviceChargeAmount, and leaves
\* the cart as it is; at percent 0 totalAmount = subtotal; for 25000 x 2 and
\* 10000 x 1 at 10 percent it returns 60000, 6000 and 66000.
C18_CartTotalsExact ==
  /\ [](totals # Unset =>
         LET r == totals[1].result
             pct == totals[1].percent
             sub == SumLines(cart, Len(cart))
         IN /\ r.subtotal = sub
            /\ r.serviceChargeAmount.hundredths \in 0..99
            /\ 100 * r.serviceChargeAmount.units
                 + r.serviceChargeAmount.hundredths = sub * pct
            /\ r.totalAmount.hundredths \in 0..99
            /\ 100 * r.totalAmount.units + r.totalAmount.hundredths
                 = 100 * sub + sub * pct
            /\ pct = 0 => r.totalAmount = [units |-> sub, hundredths |-> 0]
            /\ ( /\ Len(cart) = 2
                 /\ cart[1].price = 25000 /\ cart[1].quantity = 2
                 /\ cart[2].price = 10000 /\ cart[2].quantity = 1
                 /\ pct = 10 ) =>
                 /\ r.subtotal = 60000
                 /\ r.serviceChargeAmount = [units |-> 6000, hundredths |-> 0]
                 /\ r.totalAmount = [units |-> 66000, hundredths |-> 0])
  /\ [][\A pct \in Percents : getCartTotals(pct) => cart' = cart]_vars

C18_Witness ==
  /\ Len(cart) = 2
  /\ cart[1].price = 25000 /\ cart[1].quantity = 2
  /\ cart[2].price = 10000 /\ cart[2].quantity = 1
  /\ totals # Unset
  /\ totals[1].percent = 10
  /\ totals[1].result.totalAmount.units = 66000

\* C19: once a cart mutation is committed and the persistence effect has
\* run, the slot 'shopping_cart' holds exactly the serialized cart when the
\* cart is non-empty and no record when it is empty; an empty array is never
\* stored, so after resetCart the cart is empty and nothing is stored.
C19_SlotMirrorsCart ==
  /\ stored # JSONstringify(<<>>)
  /\ ~effectsPending =>
       IF cart = <<>> THEN stored = NoRecord
       ELSE /\ stored # NoRecord
            /\ stored = <<"[">> \o ItemsText(cart) \o <<"]">>

C19_Witness ==
  /\ ~effectsPending
  /\ Len(cart) = 2
  /\ cart[2].quantity = MaxQty
  /\ stored # NoRecord
  /\ JSONparse(stored) = cart
  /\ Len(products) = 1

\* C20: a non-empty cart that has been persisted comes back with the same
\* lines (ids, names, prices, quantities, order) when the hook is initialised
\* again from the slot; after the cart was emptied it comes back empty.
C20_RoundTrip ==
  [][Reload =>
       /\ (cart # <<>> /\ stored = JSONstringify(cart)) =>
            /\ Len(cart') = Len(cart)
            /\ \A i \in DOMAIN cart :
                 /\ cart'[i].id = cart[i].id
                 /\ cart'[i].name = cart[i].name
                 /\ cart'[i].price = cart[i].price
                 /\ cart'[i].quantity = cart[i].quantity
       /\ (cart = <<>> /\ stored = NoRecord) => cart' = <<>>
    ]_vars

\* A cart of two different lines as the initializer has just restored it.
C20_Witness ==
  /\ effectsPending
  /\ products = <<>>
  /\ Len(cart) = 2
  /\ cart[1].name # cart[2].name
  /\ cart[1].quantity # cart[2].quantity
  /\ stored = JSONstringify(cart)

\* C28: in every reachable state of the refresh interceptor in which
\* isRefreshing is false, failedQueue is empty.
C28_QueueEmptyWhenIdle ==
  ~isRefreshing => failedQueue = <<>>

\* C29: once logout() has cleared the stored token, the token stays absent
\* until a login succeeds: no refresh call that was in flight when logout
\* ran writes a token back after it.
C29_TokenStaysAbsentAfterLogout ==
  [][(ulVias # {} /\ token = NoToken /\ token' # NoToken) =>
        \E r \in Req : kind[r] = "login" /\ pc[r] = "sent" /\ pc'[r] = "ok"
    ]_vars

\* C21: after a catalog change every cart line whose product is in the
\* catalog ends with the catalog's name and price; a line whose product is
\* not in the catalog is kept as it is; the sync changes no line's quantity,
\* product id or position.
C21_CatalogSyncFrame ==
  /\ [](~effectsPending =>
          \A i \in DOMAIN cart, k \in DOMAIN products :
            products[k].id = cart[i].id =>
              /\ cart[i].name = products[k].name
              /\ cart[i].price = products[k].price)
  /\ [][RunEffects =>
          /\ Len(cart') = Len(cart)
          /\ \A i \in DOMAIN cart :
               /\ cart'[i].id = cart[i].id
               /\ cart'[i].quantity = cart[i].quantity
               /\ (\A k \in DOMAIN products : products[k].id # cart[i].id)
                    => cart'[i] = cart[i]
     ]_vars

\* The sync has just committed: the slot still holds the cart as it was,
\* the first line (product gone from the catalog) is kept, the second has
\* taken the catalog's price.
C21_Witness ==
  /\ effectsPending
  /\ Len(cart) = 2
  /\ FindById(products, cart[1].id) = 0
  /\ FindById(products, cart[2].id) # 0
  /\ stored # NoRecord
  /\ Len(JSONparse(stored)) = 2
  /\ JSONparse(stored)[1] = cart[1]
  /\ JSONparse(stored)[2].id = cart[2].id
  /\ JSONparse(stored)[2].quantity = cart[2].quantity
  /\ JSONparse(stored)[2].price # cart[2].price
  /\ cart[2].price = products[FindById(products, cart[2].id)].price

\* C22: the catalog sync commits a new cart only when some line's name or
\* price differs from the catalog, and the cart it commits agrees with the
\* catalog, so that for a fixed catalog the next run of the effect finds
\* nothing to commit.
C22_SyncCommitsOnlyChanges ==
  [][(RunEffects /\ effectsPending') =>
       /\ \E i \in DOMAIN cart, k \in DOMAIN products :
            /\ products[k].id = cart[i].id
            /\ \/ products[k].name # cart[i].name
               \/ products[k].price # cart[i].price
       /\ \A i \in DOMAIN cart', k \in DOMAIN products :
            products[k].id = cart'[i].id =>
              /\ cart'[i].name = products[k].name
              /\ cart'[i].price = products[k].price
    ]_vars

\* The sync has just committed a renamed line.
C22_Witness ==
  /\ effectsPending
  /\ Len(cart) = 1
  /\ stored # NoRecord
  /\ Len(JSONparse(stored)) = 1
  /\ JSONparse(stored)[1].id = cart[1].id
  /\ JSONparse(stored)[1].name # cart[1].name
  /\ FindById(products, cart[1].id) # 0
  /\ cart[1].name = products[FindById(products, cart[1].id)].name

\* C27: when the form's 15-second timer fires before login() has settled,
\* the form reports a failure and the login call goes on untouched; if the
\* call later succeeds, the token is stored and the page navigates to the
\* role's landing route.
C27_TimeoutDoesNotAbortLogin ==
  [][\A r \in FormReq :
       /\ (r \notin timedOut /\ r \in timedOut') =>
            /\ formClock[r] * TickMs >= LOGIN
            /\ pc' = pc
            /\ refreshInFlight' = refreshInFlight
            /\ token' = token
            /\ pathname' = pathname
       /\ (r \in timedOut /\ pc[r] = "sent" /\ pc'[r] = "ok") =>
            /\ Decodable(token')
            /\ token' # token
            /\ user' = token'
            /\ pathname' = "/admin"
    ]_vars

\* A submit timed out, and its login call has since succeeded.
C27_Witness ==
  \E r \in FormReq :
    /\ r \in timedOut
    /\ kind[r] = "login"
    /\ pc[r] = "ok"
    /\ Decodable(token)
    /\ pathname = "/admin"

\* C25: every failed call of request() ends with one ApiError; offline, its
\* message is 'No internet connection' and it has no status, whatever was
\* received; online, it carries the status of the response, and a status
\* without a mapped message and without a message in the body gets
\* 'An unexpected error occurred'.
C25_EveryFailureIsOneApiError ==
  httpCall.answer.fault \notin {"none", "notCalled"} =>
    /\ httpCall.thrown.class = "ApiError"
    /\ ~httpCall.online =>
         /\ httpCall.thrown.message = "No internet connection"
         /\ httpCall.thrown.status = NoStatus
    /\ (httpCall.online /\ httpCall.answer.fault = "response") =>
         /\ httpCall.thrown.status = httpCall.answer.status
         /\ (/\ httpCall.answer.status = 418
             /\ ~httpCall.answer.bodyErrors
             /\ ~httpCall.answer.bodyMessage)
              => httpCall.thrown.message = "An unexpected error occurred"

\* C26: two successful calls of request() with the same method and url are
\* unwrapped by the same rule, whatever their bodies hold.
C26_UnwrapByMethodAndPathOnly ==
  (httpCall.answer.fault = "none" /\ httpPrev.answer.fault = "none") =>
    httpCall.value.of = httpPrev.value.of

\* Quantity of the line of product p in cart c, 0 when there is none.
QtyOf(c, p) ==
  IF FindById(c, p) = 0 THEN 0 ELSE c[FindById(c, p)].quantity

\* C23: no action of the transactions page adds a line or increments a
\* quantity for a product whose stock is <= 0.
C23_NoAddWithoutStock ==
  [][\A p \in ProductIds :
       (FindById(products, p) # 0 /\ stock[p] <= 0) =>
          QtyOf(cart', p) <= QtyOf(cart, p)
    ]_vars

\* C24: a failed create-transaction call leaves the cart, the service charge
\* and the confirmation flag as they are; after a successful one the cart
\* eventually is empty, its stored record removed, and the service charge 0.
C24_CartClearedAfterSuccess ==
  /\ [][OrderFailed =>
          /\ cart' = cart
          /\ serviceCharge' = serviceCharge
          /\ isOrderConfirmed' = isOrderConfirmed]_vars
  /\ isOrderConfirmed ~> (cart = <<>> /\ stored = NoRecord /\ serviceCharge = 0)

\* The sum of the quantities of the first n lines.
RECURSIVE SumQuantities(_, _)
SumQuantities(c, n) ==
  IF n = 0 THEN 0 ELSE SumQuantities(c, n - 1) + c[n].quantity

\* The sum of the amounts of the first n items of a payload.
RECURSIVE SumAmounts(_, _)
SumAmounts(items, n) ==
  IF n = 0 THEN 0 ELSE SumAmounts(items, n - 1) + items[n].amount

\* C30: the payload built at order confirmation agrees with the cart of
\* that moment: total_quantity is the sum of the quantities, every item's
\* amount is price * quantity, the amounts add up to the subtotal,
\* total_amount is subtotal + subtotal * serviceCharge / 100 and
\* service_charge is serviceCharge / 100, serviceCharge being within 0..100.
C30_PayloadConsistentWithCart ==
  /\ [](serviceCharge \in 0..100)
  /\ [][(payload' # payload /\ payload' # Unset) =>
          LET p == payload'[1]
              sub == SumLines(cart, Len(cart))
          IN /\ p.total_quantity = SumQuantities(cart, Len(cart))
             /\ Len(p.transaction_items) = Len(cart)
             /\ \A i \in DOMAIN cart :
                  /\ p.transaction_items[i].product_id = cart[i].id
                  /\ p.transaction_items[i].quantity = cart[i].quantity
                  /\ p.transaction_items[i].amount = cart[i].price * cart[i].quantity
             /\ SumAmounts(p.transaction_items, Len(cart)) = sub
             /\ p.total_amount.hundredths \in 0..99
             /\ 100 * p.total_amount.units + p.total_amount.hundredths
                  = 100 * sub + sub * serviceCharge
             /\ p.service_charge.hundredths \in 0..99
             /\ 100 * p.service_charge.units + p.service_charge.hundredths
                  = serviceCharge
     ]_vars

\* An order of two lines is in flight with a service charge of 7 percent.
C30_Witness ==
  /\ payload # Unset
  /\ ordersInFlight > 0
  /\ Len(cart) = 2
  /\ cart[1].quantity = 2
  /\ serviceCharge = 7
  /\ payload[1].service_charge = [units |-> 0, hundredths |-> 7]
  /\ payload[1].total_quantity = cart[1].quantity + cart[2].quantity

====
